---------------------------- MODULE Spec2Model ----------------------------
(***************************************************************************)
(* The trip planner of sanjeev-0407/TravelPlanner.  The repository holds   *)
(* two planners: src/app.py (agents with retrieval, called one after the   *)
(* other, each catching its own exceptions) and src/travel_planner.py      *)
(* (agents without retrieval, run with asyncio.gather, catching nothing).  *)
(* Both are modelled; the variable program says which one is running.      *)
(* The Pinecone project they share with the database manager               *)
(* src/manage_db.py (indexes, records, provisioning, seeding, additions)   *)
(* and the embedding client src/embeddings.py are modelled too, each with  *)
(* a specification of its own, and so are the accounts and sessions of     *)
(* src/app.py (users collection, sign-up, sign-in, database manager).      *)
(***************************************************************************)
EXTENDS Integers, Sequences, FiniteSets, TLC

(***************************************************************************)
(* Bounds of the model.                                                    *)
(***************************************************************************)
MaxTexts        == 2    \* distinct texts the generative model may answer
MaxPeople       == 1    \* num_people ranges over 1..MaxPeople
MaxBudgetOffset == 60   \* budgets MinBudget..MinBudget+MaxBudgetOffset
MaxTopOffset    == 8    \* budgets MaxSafeInteger-MaxTopOffset..MaxSafeInteger

(***************************************************************************)
(* Python numbers.  An int is a sequence of limbs, least significant       *)
(* first, without leading zero limbs; a float is an IEEE-754 binary64      *)
(* value mant * 2^exp whose mant is an int of exactly MantissaBits bits.   *)
(* Every float operation rounds to nearest, ties to even.                  *)
(***************************************************************************)
MantissaBits  == 53
LimbBits      == 15
LiteralDigits == 60

RECURSIVE Pow2(_)
Pow2(k) == IF k = 0 THEN 1 ELSE 2 * Pow2(k - 1)

LimbBase == Pow2(LimbBits)

RECURSIVE NatLimbs(_)
NatLimbs(n) == IF n = 0 THEN <<>> ELSE <<n % LimbBase>> \o NatLimbs(n \div LimbBase)

RECURSIVE Trim(_)
Trim(a) == IF a = <<>> \/ a[Len(a)] # 0 THEN a ELSE Trim(SubSeq(a, 1, Len(a) - 1))

RECURSIVE Zeros(_)
Zeros(k) == IF k <= 0 THEN <<>> ELSE <<0>> \o Zeros(k - 1)

RECURSIVE AddLimbs(_, _, _)
AddLimbs(a, b, c) ==
    IF a = <<>> /\ b = <<>>
    THEN IF c = 0 THEN <<>> ELSE <<c>>
    ELSE LET s == (IF a = <<>> THEN 0 ELSE Head(a)) + (IF b = <<>> THEN 0 ELSE Head(b)) + c
         IN  <<s % LimbBase>> \o AddLimbs(IF a = <<>> THEN a ELSE Tail(a),
                                          IF b = <<>> THEN b ELSE Tail(b),
                                          s \div LimbBase)

\* a - d for a small d <= a
RECURSIVE SubSmall(_, _)
SubSmall(a, d) ==
    IF d = 0 THEN a
    ELSE IF Head(a) >= d
         THEN Trim(<<Head(a) - d>> \o Tail(a))
         ELSE <<Head(a) + LimbBase - d>> \o SubSmall(Tail(a), 1)

RECURSIVE MulSmall(_, _, _)
MulSmall(a, d, c) ==
    IF a = <<>>
    THEN IF c = 0 THEN <<>> ELSE <<c>>
    ELSE LET p == Head(a) * d + c
         IN  <<p % LimbBase>> \o MulSmall(Tail(a), d, p \div LimbBase)

RECURSIVE MulLimbs(_, _)
MulLimbs(a, b) ==
    IF b = <<>> THEN <<>>
    ELSE LET rest == MulLimbs(a, Tail(b))
         IN  AddLimbs(MulSmall(a, Head(b), 0), IF rest = <<>> THEN rest ELSE <<0>> \o rest, 0)

\* <<quotient, remainder>> of a by a small divisor d
RECURSIVE DivSmall(_, _)
DivSmall(a, d) ==
    IF a = <<>> THEN <<a, 0>>
    ELSE LET hi == DivSmall(Tail(a), d)
             n  == hi[2] * LimbBase + Head(a)
         IN  <<Trim(<<n \div d>> \o hi[1]), n % d>>

RECURSIVE SmallBitLen(_)
SmallBitLen(n) == IF n = 0 THEN 0 ELSE 1 + SmallBitLen(n \div 2)

BitLen(a) == IF a = <<>> THEN 0 ELSE LimbBits * (Len(a) - 1) + SmallBitLen(a[Len(a)])

Bit(a, i) == (a[(i \div LimbBits) + 1] \div Pow2(i % LimbBits)) % 2

ShiftLeft(a, k) ==
    IF a = <<>> THEN a ELSE Zeros(k \div LimbBits) \o MulSmall(a, Pow2(k % LimbBits), 0)

ShiftRight(a, k) ==
    IF k \div LimbBits >= Len(a) THEN <<>>
    ELSE DivSmall(SubSeq(a, (k \div LimbBits) + 1, Len(a)), Pow2(k % LimbBits))[1]

\* the float nearest to a * 2^exp (a > 0), ties to even
RoundLimbs(a, exp) ==
    LET k == BitLen(a) - MantissaBits
    IN  IF k <= 0
        THEN [mant |-> ShiftLeft(a, -k), exp |-> exp + k]
        ELSE LET kept   == ShiftRight(a, k)
                 sticky == \E i \in 0..(k - 2) : Bit(a, i) = 1
                 up     == Bit(a, k - 1) = 1 /\ (sticky \/ Bit(kept, 0) = 1)
                 inc    == IF up THEN AddLimbs(kept, <<1>>, 0) ELSE kept
             IN  IF BitLen(inc) > MantissaBits
                 THEN [mant |-> ShiftRight(inc, 1), exp |-> exp + k + 1]
                 ELSE [mant |-> inc, exp |-> exp + k]

\* the float a decimal literal num/den (0 < num < den) denotes, e.g. 0.4 is 4/10
float_literal(num, den) ==
    LET qr == DivSmall(ShiftLeft(NatLimbs(num), LiteralDigits), den)
    IN  RoundLimbs(AddLimbs(ShiftLeft(qr[1], 1), IF qr[2] = 0 THEN <<>> ELSE <<1>>, 0),
                   -(LiteralDigits + 1))

\* float(b) of an int b > 0
float_of_int(b) == RoundLimbs(b, 0)

float_mul(x, y) == RoundLimbs(MulLimbs(x.mant, y.mant), x.exp + y.exp)

float_add(x, y) ==
    LET e == IF x.exp < y.exp THEN x.exp ELSE y.exp
    IN  RoundLimbs(AddLimbs(ShiftLeft(x.mant, x.exp - e), ShiftLeft(y.mant, y.exp - e), 0), e)

\* int * float: Python converts the int to float, then multiplies
int_times_float(b, f) == float_mul(float_of_int(b), f)

\* int == float
int_eq_float(b, f) == float_of_int(b) = f

\* a number held in a dict: an int or a float, with its type
PyInt(b)   == <<"int", b>>
PyFloat(f) == <<"float", f>>

\* x == y for two such numbers
as_float(v) == IF v[1] = "float" THEN v[2] ELSE float_of_int(v[2])
num_eq(x, y) == as_float(x) = as_float(y)


(***************************************************************************)
(* Inputs of the planner form.                                             *)
(***************************************************************************)
MinBudget     == 1000     \* st.number_input("Budget (Rs.)", min_value=1000, ...)
DefaultBudget == 10000    \* ... value=10000
MinPeople     == 1        \* st.number_input("Number of Travelers", min_value=1, ...)

\* the largest integer st.number_input accepts when no max_value is given
MaxSafeInteger == SubSmall(ShiftLeft(<<1>>, MantissaBits), 1)

\* what the two text inputs may hold; "" is a field left empty
Origins      == {"", "Chennai"}
Destinations == {"", "Munnar"}

\* budgets the planner runs are explored with
PlanBudgets == {NatLimbs(MinBudget), NatLimbs(2 * DefaultBudget)}

\* budgets the budget distribution is explored with
BudgetInputs ==
    {NatLimbs(b) : b \in MinBudget..(MinBudget + MaxBudgetOffset)}
        \cup {NatLimbs(DefaultBudget), NatLimbs(2 * DefaultBudget)}
        \cup {SubSmall(MaxSafeInteger, k) : k \in 0..MaxTopOffset}

(***************************************************************************)
(* The agents, in the order get_all_recommendations lists them.            *)
(***************************************************************************)
Agents == 1..4
HotelAgent     == 1
TransportAgent == 2
ExpenseAgent   == 3
TouristAgent   == 4

\* a faulty agent table that gives the expense agent an index too
RetrievalAgents_All == Agents

\* the agents app.py constructs with an index name
RetrievalAgents == {HotelAgent, TransportAgent, TouristAgent}

\* the index each of them is constructed with
IndexOf(a) ==
    CASE a = HotelAgent     -> "hotels"
      [] a = TransportAgent -> "transport"
      [] a = TouristAgent   -> "tourist-places"

\* a faulty form check: any([boarding, destination])
all_filled_Any(origin, dest) == origin # "" \/ dest # ""

\* all([boarding, destination]): both strings are non-empty
all_filled(origin, dest) == origin # "" /\ dest # ""

\* self.name of the agents of app.py
AppName(a) ==
    CASE a = HotelAgent     -> "Hotel Recommendations"
      [] a = TransportAgent -> "Transport Options"
      [] a = ExpenseAgent   -> "Expense Breakdown"
      [] a = TouristAgent   -> "Tourist Guide"

\* self.name of the agents of travel_planner.py
PlannerName(a) ==
    CASE a = HotelAgent     -> "HotelAgent"
      [] a = TransportAgent -> "TransportAgent"
      [] a = ExpenseAgent   -> "ExpenseAgent"
      [] a = TouristAgent   -> "TouristAgent"

\* the labels of st.tabs([...]), the same in both programs
TabLabels == <<"Hotels", "Transport", "Expenses", "Tourist Guide">>

\* what the generative model may answer, and what a similarity search may return
Contents      == {<<"content", t>> : t \in 1..MaxTexts}
RetrievedDocs == {<<>>, <<"doc">>}
LLMError      == <<"error">>

\* the value get_recommendations of app.py returns from its except branch
Placeholder(a) ==
    <<"Unable to fetch ", AppName(a), " recommendations. Please try again later.">>

(***************************************************************************)
(* src/embeddings.py: JinaEmbeddings.  The provider answers each request   *)
(* with a status code and, on 200, an embedding.                           *)
(***************************************************************************)
MaxBatch   == 3    \* embed_documents is explored with lists of 0..MaxBatch texts
MaxVectors == 2    \* distinct embeddings the provider may answer with

StatusOK == 200
FailureStatuses == {429, 500}

DocTexts == {"doc A", "doc B"}
Vectors  == {<<"embedding", k>> : k \in 1..MaxVectors}

\* what requests.post may return
Responses ==
    [status_code : {StatusOK}, embedding : Vectors]
        \cup [status_code : FailureStatuses, embedding : {<<>>}]

\* Exception(f"API Request Failed: {response.status_code}")
APIRequestFailed(status_code) ==
    [message |-> "API Request Failed: ", status_code |-> status_code]

\* a faulty loop: embeddings.insert(0, ...) in place of embeddings.append(...)
RECURSIVE embed_loop_Prepending(_, _, _, _)
embed_loop_Prepending(ts, rs, i, acc) ==
    IF i > Len(ts)
    THEN [raised |-> FALSE, value |-> acc, error |-> <<>>, posted |-> ts]
    ELSE IF rs[i].status_code = StatusOK
         THEN embed_loop_Prepending(ts, rs, i + 1, <<rs[i].embedding>> \o acc)
         ELSE [raised |-> TRUE, value |-> <<>>,
               error |-> APIRequestFailed(rs[i].status_code),
               posted |-> SubSeq(ts, 1, i)]

\* the for loop of embed_documents from its i-th text on, acc being the list
\* embeddings so far and rs[i] the provider's answer to the i-th request;
\* posted lists the texts of the requests made
RECURSIVE embed_loop(_, _, _, _)
embed_loop(ts, rs, i, acc) ==
    IF i > Len(ts)
    THEN [raised |-> FALSE, value |-> acc, error |-> <<>>, posted |-> ts]
    ELSE IF rs[i].status_code = StatusOK
         THEN embed_loop(ts, rs, i + 1, Append(acc, rs[i].embedding))
         ELSE [raised |-> TRUE, value |-> <<>>,
               error |-> APIRequestFailed(rs[i].status_code),
               posted |-> SubSeq(ts, 1, i)]

embed_documents(ts, rs) == embed_loop(ts, rs, 1, <<>>)

\* the lists of texts embed_documents is explored with
RECURSIVE SeqsUpTo(_, _)
SeqsUpTo(S, n) ==
    IF n = 0 THEN {<<>>}
    ELSE SeqsUpTo(S, n - 1) \cup {Append(q, x) : q \in SeqsUpTo(S, n - 1), x \in S}

(***************************************************************************)
(* The Pinecone project both src/app.py and src/manage_db.py work on: its  *)
(* indexes, each with the dimension and metric it was created with.        *)
(***************************************************************************)
MaxEnsureCalls == 2    \* calls of ensure_indexes_exist a session makes
MaxCreateCalls == 2    \* presses of "Create/Check Index" in manage_db.py

INDEX_HOTELS       == "hotels"
INDEX_TRANSPORT    == "transport"
INDEX_PLACES       == "tourist-places"
INDEX_EXPENSES     == "expenses"
INDEX_DESTINATIONS == "destinations"

required_indexes ==
    <<INDEX_HOTELS, INDEX_TRANSPORT, INDEX_PLACES, INDEX_EXPENSES, INDEX_DESTINATIONS>>
RequiredNames == {required_indexes[k] : k \in 1..Len(required_indexes)}

\* the categories the selectbox of the database manager offers
CategoryIndexes == {INDEX_HOTELS, INDEX_TRANSPORT, INDEX_PLACES, INDEX_EXPENSES}

\* dimension=1024, metric='cosine' of every pc.create_index call
EmbeddingDimension == 1024
Requested == [dimension |-> EmbeddingDimension, metric |-> "cosine"]
\* an index somebody created with another configuration
Foreign   == [dimension |-> EmbeddingDimension + 512, metric |-> "euclidean"]

\* the states the project may be in when a program starts: any of the
\* required indexes may exist, at most one of them with a foreign configuration
InitialProjects ==
    {ix \in UNION {[S -> {Requested, Foreign}] : S \in SUBSET RequiredNames} :
        Cardinality({n \in DOMAIN ix : ix[n] = Foreign}) <= 1}

\* the project after a pc.create_index(name=n, dimension=1024, metric='cosine')
\* that did not raise
Created(ix, n) == [m \in DOMAIN ix \cup {n} |-> IF m = n THEN Requested ELSE ix[m]]

\* the browser sessions running main() of app.py
Sessions == {"s1", "s2"}

\* a session that has not called ensure_indexes_exist yet
NotCalled ==
    [pc |-> "idle", existing_indexes |-> {}, i |-> 1, created |-> <<>>,
     ret |-> FALSE, error |-> "", calls |-> 0, succeeded |-> FALSE, again |-> FALSE,
     after |-> {}]

(***************************************************************************)
(* The records of the indexes.  A record is what index.upsert is given:    *)
(* an id, the values (the embedding) and the metadata.                     *)
(***************************************************************************)
MaxAdds      == 2    \* calls of add_data_to_index
MaxRandomIds == 2    \* distinct values os.urandom(12).hex() is explored with

\* what the administrator may type into the "Description" field
Descriptions == {"desc A", "desc B"}

\* the metadata dict the form builds for the selected category
FormMetadata(index_name) == [category |-> index_name, location |-> "Munnar"]

\* {**base, **over}: the keys of both dicts, over winning
Merge(base, over) ==
    [k \in DOMAIN base \cup DOMAIN over |-> IF k \in DOMAIN over THEN over[k] ELSE base[k]]

Ids(recs) == {r.id : r \in recs}

\* a faulty upsert that stores nothing
Upsert_Drops(recs, r) == recs

\* index.upsert(vectors=[r]): r replaces the record of the same id, if any
Upsert(recs, r) == {x \in recs : x.id # r.id} \cup {r}

\* a faulty generator that yields the same id at every call
urandom_hex_Constant(used) == {<<"hex", 1>>}

\* os.urandom(12).hex(): 24 hexadecimal digits drawn at random, taken never
\* to repeat an id that is in use
urandom_hex(used) == {<<"hex", k>> : k \in 1..MaxRandomIds} \ used

(***************************************************************************)
(* Seeding.  DESTINATION_DETAILS of src/app.py lists three destinations,   *)
(* that of src/manage_db.py one; a dict is walked in insertion order.      *)
(***************************************************************************)
MaxSeedRuns == 3    \* runs of seed_destination_data

Programs == {"app.py", "manage_db.py"}

DESTINATION_DETAILS(prog) ==
    IF prog = "app.py" THEN <<"Kodaikanal", "Munnar", "Ooty">> ELSE <<"Kodaikanal">>

Catalog(prog) == {DESTINATION_DETAILS(prog)[k] : k \in 1..Len(DESTINATION_DETAILS(prog))}

\* destination.lower()
lower(destination) ==
    CASE destination = "Kodaikanal" -> "kodaikanal"
      [] destination = "Munnar"     -> "munnar"
      [] destination = "Ooty"       -> "ooty"

\* a faulty id that leaves the destination's name out
SeedId_Nameless(destination) == <<"dest_", "">>

\* f"dest_{destination.lower()}"
SeedId(destination) == <<"dest_", lower(destination)>>

\* the record seeding upserts for a destination, v being its embedding
SeedRecord(destination, v) ==
    [id |-> SeedId(destination), values |-> v,
     metadata |-> Merge([name |-> destination, text |-> "Destination: " \o destination],
                        [best_season |-> "season of " \o destination])]

\* nobody seeding
NotSeeding ==
    [pc |-> "idle", program |-> "", k |-> 1, ret |-> "", runs |-> 0, succeeded |-> {}]

(***************************************************************************)
(* src/app.py: the users collection of MongoDB and the sessions.           *)
(***************************************************************************)
MaxSignups == 2    \* "Create Account" submissions a session makes

ADMIN_USERNAME == "admin"
ADMIN_PASSWORD == "admin123"

\* what visitors type into the sign-up and sign-in forms
NewUsernames == {"alice", ADMIN_USERNAME}
Passwords    == {"pw", ADMIN_PASSWORD}

\* bcrypt.hashpw(password, bcrypt.gensalt()) and bcrypt.checkpw: a hash
\* verifies against the password it was made from and no other
hash_password(password) == <<"bcrypt", password>>
verify_password(stored_password, provided_password) ==
    stored_password = hash_password(provided_password)

\* find_one returned None
NoUser == [id |-> 0, username |-> "", password |-> <<>>, role |-> ""]

\* users_collection.find_one({"username": username}): the first document
\* inserted under that name, or None
find_one(docs, username) ==
    LET found == {u \in docs : u.username = username} IN
    IF found = {} THEN NoUser
    ELSE CHOOSE u \in found : \A w \in found : u.id <= w.id

\* users_collection.insert_one(user): the collection has no unique index, the
\* document gets an _id of its own
insert_one(docs, username, password, role) ==
    docs \cup {[id |-> Cardinality(docs) + 1, username |-> username,
                password |-> hash_password(password), role |-> role]}

\* st.session_state.user_info = None
NoInfo == [username |-> "", role |-> ""]

\* authenticate_user(username, password)
authenticate_user(docs, username, password) ==
    LET user == find_one(docs, username) IN
    IF user = NoUser \/ ~verify_password(user.password, password)
    THEN NoInfo
    ELSE [username |-> user.username, role |-> user.role]

\* a faulty role test that takes everybody for an administrator
is_admin_Anyone(user_info) == TRUE

\* st.session_state.user_info["role"] == "admin"
is_admin(user_info) == user_info.role = "admin"

\* no create_user call made
NotCreating ==
    [pc |-> "idle", username |-> "", password |-> "", role |-> "", ret |-> "",
     message |-> "", signups |-> 0]

\* a session whose first run of main has not begun
NotStarted ==
    [at |-> "start", logged_in |-> FALSE, user_info |-> NoInfo,
     index_selector |-> INDEX_HOTELS, description_input |-> "", adds |-> 0,
     run_calls |-> 0]

VARIABLES
    program,        \* "app.py" or "travel_planner.py"
    boarding, destination, num_people, budget,   \* the widgets' values
    phase,          \* "idle", "rejected", "running", "returned", "raised"
    distribution,   \* hotel_budget, transport_budget, misc_budget, once computed
    query,          \* the query dict each agent is called with
    vectorstore,    \* app.py: self.vectorstore of each agent
    pc,             \* where each agent's get_recommendations is
    search,         \* outcome of each agent's similarity search
    llm,            \* outcome of each agent's generative call
    prompt,         \* the prompt each agent sent to the generative model
    out,            \* what each agent's get_recommendations returned
    nSearch, nGen,  \* similarity searches and generative calls issued so far
    finished,       \* the agents in the order they completed
    results,        \* the value get_all_recommendations builds
    tabs,           \* what the tabs show
    texts,          \* embed_documents: the list it is called with
    responses,      \* embed_documents: the provider's answer to each request
    embeddings,     \* embed_documents: how the call ended, once it has
    indexes,        \* the indexes of the Pinecone project, with their configuration
    ensure,         \* where each session's ensure_indexes_exist is, and how it ended
    checked,        \* manage_db.py: the last create_index call and how it ended
    vectors,        \* the records of each index
    added,          \* the last add_data_to_index call and how it ended
    seed,           \* where seed_destination_data is, and how its runs ended
    users,          \* the documents of users_collection
    creating,       \* where each session's create_user call is, and how it ended
    session         \* each session's st.session_state and the part of main it is in

vars == <<program, boarding, destination, num_people, budget, phase, distribution,
          query, vectorstore, pc, search, llm, prompt, out, nSearch, nGen,
          finished, results, tabs, texts, responses, embeddings,
          indexes, ensure, checked, vectors, added, seed,
          users, creating, session>>

embedVars == <<texts, responses, embeddings>>
indexVars == <<indexes, ensure, checked>>
dataVars  == <<vectors, added, seed>>
authVars  == <<users, creating, session>>
storeVars == <<embedVars, indexVars, dataVars, authVars>>

inputs == <<program, boarding, destination, num_people, budget>>
agentVars == <<query, vectorstore, pc, search, llm, prompt, out, nSearch, nGen,
               finished, results, tabs>>

(***************************************************************************)
(* The budget distribution, computed the same way in both programs.        *)
(***************************************************************************)
\* a faulty distribution: a misc share of 0.2 in place of 0.3
budget_distribution_MiscFifth(b) ==
    [hotel_budget     |-> int_times_float(b, float_literal(4, 10)),
     transport_budget |-> int_times_float(b, float_literal(3, 10)),
     misc_budget      |-> int_times_float(b, float_literal(2, 10))]

budget_distribution(b) ==
    [hotel_budget     |-> int_times_float(b, float_literal(4, 10)),
     transport_budget |-> int_times_float(b, float_literal(3, 10)),
     misc_budget      |-> int_times_float(b, float_literal(3, 10))]

plannerVars == <<inputs, phase, distribution, agentVars>>

\* no call of embed_documents under way
EmbedAtRest == texts = <<>> /\ responses = <<>> /\ embeddings = <<>>

\* the project with every required index, as requested
Provisioned == [n \in RequiredNames |-> Requested]

\* every required index provisioned, nobody provisioning
IndexesAtRest ==
    /\ indexes = Provisioned
    /\ ensure = [s \in Sessions |-> NotCalled]
    /\ checked = [n |-> 0, name |-> "", outcome |-> ""]

\* no record written, add_data_to_index not called
NeverAdded ==
    [n |-> 0, program |-> "", index_name |-> "", text |-> "", ret |-> "",
     raised |-> FALSE, cause |-> ""]
DataAtRest ==
    /\ vectors = [n \in RequiredNames |-> {}]
    /\ added = NeverAdded
    /\ seed = NotSeeding

\* the administrator and one user registered, every session signed in as
\* that user and past login_ui
AuthAtRest ==
    /\ users = insert_one(insert_one({}, ADMIN_USERNAME, ADMIN_PASSWORD, "admin"),
                          "alice", "pw", "user")
    /\ creating = [s \in Sessions |-> NotCreating]
    /\ session = [s \in Sessions |->
                     [NotStarted EXCEPT !.at = "init", !.logged_in = TRUE,
                                        !.user_info = authenticate_user(users, "alice", "pw")]]

StoreAtRest == EmbedAtRest /\ IndexesAtRest /\ DataAtRest /\ AuthAtRest

\* the projects the planner is started on
PlanProjects ==
    {Provisioned,
     [n \in RequiredNames \ {INDEX_HOTELS} |-> Requested],
     [n \in {} |-> Requested]}

InitWith(budgets, projects) ==
    /\ EmbedAtRest
    /\ AuthAtRest
    /\ DataAtRest
    /\ ensure = [s \in Sessions |-> NotCalled]
    /\ checked = [n |-> 0, name |-> "", outcome |-> ""]
    /\ program \in {"app.py", "travel_planner.py"}
    /\ indexes \in (IF program = "app.py" THEN projects ELSE {Provisioned})
    /\ boarding \in Origins
    /\ destination \in Destinations
    /\ num_people \in MinPeople..MaxPeople
    /\ budget \in budgets
    /\ phase = "idle"
    /\ distribution = <<>>
    /\ query = [a \in Agents |-> <<>>]
    /\ vectorstore = [a \in Agents |-> "absent"]
    /\ pc = [a \in Agents |-> "pending"]
    /\ search = [a \in Agents |-> "none"]
    /\ llm = [a \in Agents |-> <<>>]
    /\ prompt = [a \in Agents |-> <<>>]
    /\ out = [a \in Agents |-> <<>>]
    /\ nSearch = [a \in Agents |-> 0]
    /\ nGen = [a \in Agents |-> 0]
    /\ finished = <<>>
    /\ results = <<>>
    /\ tabs = <<>>

Init == InitWith(PlanBudgets, PlanProjects)

(***************************************************************************)
(* src/app.py: ensure_indexes_exist, step by step, and main.                *)
(***************************************************************************)
\* a faulty listing: existing_indexes = [] whatever the project holds
ensure_list_ListsNothing(s) ==
    /\ program = "app.py"
    /\ ensure[s].pc \in {"idle", "returned"}
    /\ ensure[s].calls < MaxEnsureCalls
    /\ ensure' = [ensure EXCEPT ![s] =
                     [@ EXCEPT !.pc = "loop", !.existing_indexes = {},
                               !.i = 1, !.created = <<>>, !.ret = FALSE, !.error = "",
                               !.calls = @ + 1, !.again = ensure[s].succeeded]]
    /\ UNCHANGED <<indexes, checked, plannerVars, authVars, embedVars, dataVars>>

\* existing_indexes = pc.list_indexes().names(); created = []
\* (succeeded, again and after keep the history the properties speak of: has
\* a call of this session returned True, had one when this call began, and
\* which indexes existed when it returned)
ensure_list(s) ==
    /\ program = "app.py"
    /\ ensure[s].pc \in {"idle", "returned"}
    /\ ensure[s].calls < MaxEnsureCalls
    /\ ensure' = [ensure EXCEPT ![s] =
                     [@ EXCEPT !.pc = "loop", !.existing_indexes = DOMAIN indexes,
                               !.i = 1, !.created = <<>>, !.ret = FALSE, !.error = "",
                               !.calls = @ + 1, !.again = ensure[s].succeeded]]
    /\ UNCHANGED <<indexes, checked, plannerVars, authVars, embedVars, dataVars>>

\* one turn of "for index_name in required_indexes": nothing to do for a name
\* that was listed; otherwise pc.create_index, which creates the index, or
\* raises and ends the call: the name is taken (an index of that name was
\* created since the listing), or the provider refuses the creation
ensure_step(s) ==
    /\ ensure[s].pc = "loop"
    /\ ensure[s].i <= Len(required_indexes)
    /\ LET index_name == required_indexes[ensure[s].i] IN
       IF index_name \in ensure[s].existing_indexes
       THEN /\ ensure' = [ensure EXCEPT ![s].i = @ + 1]
            /\ UNCHANGED indexes
       ELSE \/ /\ index_name \notin DOMAIN indexes
               /\ indexes' = Created(indexes, index_name)
               /\ ensure' = [ensure EXCEPT ![s] =
                                [@ EXCEPT !.i = @ + 1,
                                          !.created = Append(@, index_name)]]
            \/ /\ ensure' = [ensure EXCEPT ![s] =
                                [@ EXCEPT !.pc = "returned", !.ret = FALSE,
                                          !.error = IF index_name \in DOMAIN indexes
                                                    THEN "exists" ELSE "refused"]]
               /\ UNCHANGED indexes
    /\ UNCHANGED <<checked, plannerVars, authVars, embedVars, dataVars>>

\* the loop is over: return True
ensure_return(s) ==
    /\ ensure[s].pc = "loop"
    /\ ensure[s].i > Len(required_indexes)
    /\ ensure' = [ensure EXCEPT ![s] =
                     [@ EXCEPT !.pc = "returned", !.ret = TRUE,
                               !.succeeded = TRUE, !.after = DOMAIN indexes]]
    /\ UNCHANGED <<indexes, checked, plannerVars, authVars, embedVars, dataVars>>

ensure_indexes_exist(s) == ensure_list(s) \/ ensure_step(s) \/ ensure_return(s)

\* a faulty main that goes on whatever ensure_indexes_exist returned
Initialized_IgnoresResult(s) == ensure[s].pc = "returned"

\* main got past "if not ensure_indexes_exist(): ... return"
Initialized(s) == ensure[s].pc = "returned" /\ ensure[s].ret

\* main of app.py, run by the session s1 until ensure_indexes_exist has
\* returned True: every run calls it before it shows planner_ui
app_main ==
    /\ phase = "idle"
    /\ ~Initialized("s1")
    /\ ensure_indexes_exist("s1")

(***************************************************************************)
(* src/app.py: planner_ui, get_all_recommendations, TravelAgent.           *)
(***************************************************************************)

\* the one query dict planner_ui builds and every agent receives
AppQuery ==
    [boarding |-> boarding, destination |-> destination,
     num_people |-> num_people, budget |-> PyInt(budget)]

\* prompt.format(results=results, **query) with the agent's own template
AppPrompt(a, docs) == [template |-> AppName(a), results |-> docs, args |-> query[a]]

\* results[agent.name] = agent.get_recommendations(query), and the loop moves on
AppReturned(a, value) ==
    /\ out' = [out EXCEPT ![a] = value]
    /\ results' = [n \in (DOMAIN results) \cup {AppName(a)} |->
                      IF n = AppName(a) THEN value ELSE results[n]]
    /\ pc' = [pc EXCEPT ![a] = "done"]
    /\ finished' = Append(finished, a)

\* "Plan My Trip" pressed: the form is checked, the budget distributed, the
\* query built and the four agents constructed (TravelAgent.__init__ keeps a
\* vectorstore, or None when connecting to the index raised)
planner_ui ==
    /\ program = "app.py"
    /\ Initialized("s1")
    /\ phase = "idle"
    /\ IF ~all_filled(boarding, destination)
       THEN /\ phase' = "rejected"
            /\ UNCHANGED <<distribution, agentVars>>
       ELSE /\ phase' = "running"
            /\ distribution' = budget_distribution(budget)
            /\ query' = [a \in Agents |-> AppQuery]
            /\ \E vs \in [RetrievalAgents -> {"ok", "none"}] :
                   vectorstore' = [a \in Agents |->
                                      IF a \in RetrievalAgents THEN vs[a] ELSE "absent"]
            /\ UNCHANGED <<pc, search, llm, prompt, out, nSearch, nGen,
                           finished, results, tabs>>
    /\ UNCHANGED <<inputs, storeVars>>

\* the for loop reaches agent a: get_recommendations starts the similarity
\* search when the agent has a vectorstore, else goes straight to the model
App_get_recommendations(a) ==
    /\ program = "app.py"
    /\ phase = "running"
    /\ pc[a] = "pending"
    /\ \A b \in Agents : b < a => pc[b] = "done"
    /\ IF vectorstore[a] = "ok"
       THEN /\ pc' = [pc EXCEPT ![a] = "searching"]
            /\ nSearch' = [nSearch EXCEPT ![a] = @ + 1]
            /\ UNCHANGED <<prompt, nGen>>
       ELSE /\ pc' = [pc EXCEPT ![a] = "generating"]
            /\ prompt' = [prompt EXCEPT ![a] = AppPrompt(a, <<>>)]
            /\ nGen' = [nGen EXCEPT ![a] = @ + 1]
            /\ UNCHANGED nSearch
    /\ UNCHANGED <<inputs, storeVars, phase, distribution, query, vectorstore, search, llm,
                   out, finished, results, tabs>>

\* self.vectorstore.similarity_search returns documents, or raises into the
\* except branch of get_recommendations
App_similarity_search(a) ==
    /\ program = "app.py"
    /\ pc[a] = "searching"
    /\ \/ \E docs \in RetrievedDocs :
            /\ search' = [search EXCEPT ![a] = "ok"]
            /\ prompt' = [prompt EXCEPT ![a] = AppPrompt(a, docs)]
            /\ nGen' = [nGen EXCEPT ![a] = @ + 1]
            /\ pc' = [pc EXCEPT ![a] = "generating"]
            /\ UNCHANGED <<out, results, finished>>
       \/ /\ search' = [search EXCEPT ![a] = "error"]
          /\ AppReturned(a, Placeholder(a))
          /\ UNCHANGED <<prompt, nGen>>
    /\ UNCHANGED <<inputs, storeVars, phase, distribution, query, vectorstore, llm, nSearch, tabs>>

\* llm.invoke returns a response, or raises into the except branch
App_llm_invoke(a) ==
    /\ program = "app.py"
    /\ pc[a] = "generating"
    /\ \/ \E c \in Contents :
            /\ llm' = [llm EXCEPT ![a] = c]
            /\ AppReturned(a, c)
       \/ /\ llm' = [llm EXCEPT ![a] = LLMError]
          /\ AppReturned(a, Placeholder(a))
    /\ UNCHANGED <<inputs, storeVars, phase, distribution, query, vectorstore, search, prompt,
                   nSearch, nGen, tabs>>

\* the loop is over
AppLoopDone == \A a \in Agents : pc[a] = "done"

\* get_all_recommendations returns and planner_ui fills the four tabs
App_display ==
    /\ program = "app.py"
    /\ phase = "running"
    /\ AppLoopDone
    /\ phase' = "returned"
    /\ tabs' = [i \in 1..4 |-> [label |-> TabLabels[i], body |-> results[AppName(i)]]]
    /\ UNCHANGED <<inputs, storeVars, distribution, query, vectorstore, pc, search, llm, prompt,
                   out, nSearch, nGen, finished, results>>

(***************************************************************************)
(* src/travel_planner.py: main, get_all_recommendations, TravelAgent.      *)
(***************************************************************************)

\* hotel_query, transport_query, expense_query and tourist_query of main
PlannerQuery(a, d) ==
    CASE a = HotelAgent ->
             [destination |-> destination, num_people |-> num_people,
              budget |-> PyFloat(d.hotel_budget)]
      [] a = TransportAgent ->
             [boarding |-> boarding, destination |-> destination,
              num_people |-> num_people, budget |-> PyFloat(d.transport_budget)]
      [] a = ExpenseAgent ->
             [destination |-> destination, num_people |-> num_people,
              budget |-> PyFloat(d.misc_budget)]
      [] a = TouristAgent ->
             [destination |-> destination, num_people |-> num_people]

\* template.format(**query) with the template chosen by self.name
PlannerPrompt(a) == [template |-> PlannerName(a), results |-> <<>>, args |-> query[a]]

\* "Plan My Trip" pressed: the form is checked, the budget distributed, the
\* four queries built; asyncio.run(get_all_recommendations(...)) creates the
\* four coroutines and hands them to asyncio.gather
main ==
    /\ program = "travel_planner.py"
    /\ phase = "idle"
    /\ IF ~all_filled(boarding, destination)
       THEN /\ phase' = "rejected"
            /\ UNCHANGED <<distribution, agentVars>>
       ELSE /\ phase' = "running"
            /\ distribution' = budget_distribution(budget)
            /\ query' = [a \in Agents |-> PlannerQuery(a, budget_distribution(budget))]
            /\ UNCHANGED <<vectorstore, pc, search, llm, prompt, out, nSearch, nGen,
                           finished, results, tabs>>
    /\ UNCHANGED <<inputs, storeVars>>

\* the event loop runs the first step of task a, up to its await of
\* llm.ainvoke; tasks are stepped in the order gather created them
TP_get_recommendations(a) ==
    /\ program = "travel_planner.py"
    /\ phase = "running"
    /\ pc[a] = "pending"
    /\ \A b \in Agents : b < a => pc[b] # "pending"
    /\ pc' = [pc EXCEPT ![a] = "generating"]
    /\ prompt' = [prompt EXCEPT ![a] = PlannerPrompt(a)]
    /\ nGen' = [nGen EXCEPT ![a] = @ + 1]
    /\ UNCHANGED <<inputs, storeVars, phase, distribution, query, vectorstore, search, llm, out,
                   nSearch, finished, results, tabs>>

\* llm.ainvoke completes: the task returns response.content, or the
\* exception leaves get_recommendations, which has no handler
TP_ainvoke(a) ==
    /\ program = "travel_planner.py"
    /\ phase = "running"
    /\ pc[a] = "generating"
    /\ \/ \E c \in Contents :
            /\ llm' = [llm EXCEPT ![a] = c]
            /\ out' = [out EXCEPT ![a] = c]
            /\ pc' = [pc EXCEPT ![a] = "done"]
       \/ /\ llm' = [llm EXCEPT ![a] = LLMError]
          /\ pc' = [pc EXCEPT ![a] = "failed"]
          /\ UNCHANGED out
    /\ finished' = Append(finished, a)
    /\ UNCHANGED <<inputs, storeVars, phase, distribution, query, vectorstore, search, prompt,
                   nSearch, nGen, results, tabs>>

\* a faulty gather: it returns as soon as one task has returned
GatherDone_FirstCompleted == \E a \in Agents : pc[a] = "done"

\* asyncio.gather's future has a result: every task has returned
GatherDone == \A a \in Agents : pc[a] = "done"

\* a faulty gather: the tasks' results in the order the tasks completed
GatherResults_CompletionOrder == [i \in Agents |-> out[finished[i]]]

\* the list asyncio.gather returns: the tasks' results in the order of its arguments
GatherResults == [i \in Agents |-> out[i]]

\* asyncio.gather returns, asyncio.run hands the list to main, main fills the tabs
TP_gather_returns ==
    /\ program = "travel_planner.py"
    /\ phase = "running"
    /\ GatherDone
    /\ phase' = "returned"
    /\ results' = GatherResults
    /\ tabs' = [i \in 1..4 |-> [label |-> TabLabels[i], body |-> GatherResults[i]]]
    /\ UNCHANGED <<inputs, storeVars, distribution, query, vectorstore, pc, search, llm, prompt,
                   out, nSearch, nGen, finished>>

\* a task has raised: gather (return_exceptions=False) passes the exception on,
\* asyncio.run cancels the tasks still running and raises it in main
TP_gather_raises ==
    /\ program = "travel_planner.py"
    /\ phase = "running"
    /\ \E a \in Agents : pc[a] = "failed"
    /\ phase' = "raised"
    /\ pc' = [a \in Agents |->
                 IF pc[a] \in {"pending", "generating"} THEN "cancelled" ELSE pc[a]]
    /\ UNCHANGED <<inputs, storeVars, distribution, query, vectorstore, search, llm, prompt, out,
                   nSearch, nGen, finished, results, tabs>>

(***************************************************************************)
(* The planners.                                                           *)
(***************************************************************************)
StartAgent(a) == App_get_recommendations(a) \/ TP_get_recommendations(a)

Next ==
    \/ app_main
    \/ planner_ui
    \/ \E a \in Agents : App_get_recommendations(a)
    \/ \E a \in Agents : App_similarity_search(a)
    \/ \E a \in Agents : App_llm_invoke(a)
    \/ App_display
    \/ main
    \/ \E a \in Agents : TP_get_recommendations(a)
    \/ \E a \in Agents : TP_ainvoke(a)
    \/ TP_gather_returns
    \/ TP_gather_raises

Spec == Init /\ [][Next]_vars

(***************************************************************************)
(* The budget distribution on its own, over a wider range of budgets.      *)
(***************************************************************************)
distribute_budget ==
    /\ phase = "idle"
    /\ distribution = <<>>
    /\ distribution' = budget_distribution(budget)
    /\ UNCHANGED <<inputs, storeVars, phase, agentVars>>

NextBudget == distribute_budget

SpecBudget == InitWith(BudgetInputs, {Provisioned}) /\ [][NextBudget]_vars

(***************************************************************************)
(* embed_documents on its own, over every list of texts and every          *)
(* combination of answers of the provider.                                 *)
(***************************************************************************)
PlannerAtRest ==
    /\ program = "app.py"
    /\ boarding = ""
    /\ destination = ""
    /\ num_people = MinPeople
    /\ budget = NatLimbs(DefaultBudget)
    /\ phase = "idle"
    /\ distribution = <<>>
    /\ query = [a \in Agents |-> <<>>]
    /\ vectorstore = [a \in Agents |-> "absent"]
    /\ pc = [a \in Agents |-> "pending"]
    /\ search = [a \in Agents |-> "none"]
    /\ llm = [a \in Agents |-> <<>>]
    /\ prompt = [a \in Agents |-> <<>>]
    /\ out = [a \in Agents |-> <<>>]
    /\ nSearch = [a \in Agents |-> 0]
    /\ nGen = [a \in Agents |-> 0]
    /\ finished = <<>>
    /\ results = <<>>
    /\ tabs = <<>>

InitEmbed ==
    /\ PlannerAtRest
    /\ texts \in SeqsUpTo(DocTexts, MaxBatch)
    /\ responses \in [1..Len(texts) -> Responses]
    /\ embeddings = <<>>
    /\ IndexesAtRest
    /\ DataAtRest
    /\ AuthAtRest

call_embed_documents ==
    /\ embeddings = <<>>
    /\ embeddings' = embed_documents(texts, responses)
    /\ UNCHANGED <<plannerVars, authVars, texts, responses, indexVars, dataVars>>

NextEmbed == call_embed_documents

SpecEmbed == InitEmbed /\ [][NextEmbed]_vars

(***************************************************************************)
(* create_index of src/manage_db.py, and provisioning on its own.          *)
(***************************************************************************)
\* manage_db.py, "Create/Check Index" pressed for the selected category
create_index(index_name) ==
    /\ checked.n < MaxCreateCalls
    /\ IF index_name \notin DOMAIN indexes
       THEN \/ /\ indexes' = Created(indexes, index_name)
               /\ checked' = [n |-> checked.n + 1, name |-> index_name,
                              outcome |-> "created"]
            \/ /\ checked' = [n |-> checked.n + 1, name |-> index_name,
                              outcome |-> "error"]
               /\ UNCHANGED indexes
       ELSE /\ checked' = [n |-> checked.n + 1, name |-> index_name,
                           outcome |-> "exists"]
            /\ UNCHANGED indexes
    /\ UNCHANGED <<ensure, plannerVars, authVars, embedVars, dataVars>>

InitIndexes ==
    /\ PlannerAtRest
    /\ EmbedAtRest
    /\ AuthAtRest
    /\ indexes \in InitialProjects
    /\ ensure = [s \in Sessions |-> NotCalled]
    /\ checked = [n |-> 0, name |-> "", outcome |-> ""]
    /\ DataAtRest

NextIndexes ==
    \/ ensure_list("s1")
    \/ ensure_step("s1")
    \/ ensure_return("s1")
    \/ \E index_name \in CategoryIndexes : create_index(index_name)

SpecIndexes == InitIndexes /\ [][NextIndexes]_vars

(***************************************************************************)
(* add_data_to_index of src/app.py (returns True or False) and of          *)
(* src/manage_db.py (returns None after st.success or st.error).           *)
(***************************************************************************)
\* what the call returns after its try block succeeded, or failed
Returns(prog, ok) ==
    IF prog = "app.py" THEN (IF ok THEN "True" ELSE "False") ELSE "None"

add_data_to_index(prog, index_name, text, metadata) ==
    /\ added.n < MaxAdds
    /\ \E r \in Responses :
         LET e == embed_documents(<<text>>, <<r>>) IN
         IF e.raised
         THEN /\ added' = [n |-> added.n + 1, program |-> prog,
                           index_name |-> index_name, text |-> text,
                           ret |-> Returns(prog, FALSE), raised |-> FALSE,
                           cause |-> "embedding"]
              /\ UNCHANGED vectors
         ELSE \/ /\ index_name \in DOMAIN indexes
                 /\ \E id \in urandom_hex(UNION {Ids(vectors[n]) : n \in RequiredNames}) :
                      vectors' = [vectors EXCEPT ![index_name] =
                                     Upsert(@, [id |-> id, values |-> e.value[1],
                                                metadata |-> Merge([text |-> text], metadata)])]
                 /\ added' = [n |-> added.n + 1, program |-> prog,
                              index_name |-> index_name, text |-> text,
                              ret |-> Returns(prog, TRUE), raised |-> FALSE,
                              cause |-> ""]
              \/ /\ added' = [n |-> added.n + 1, program |-> prog,
                              index_name |-> index_name, text |-> text,
                              ret |-> Returns(prog, FALSE), raised |-> FALSE,
                              cause |-> "upsert"]
                 /\ UNCHANGED vectors
    /\ UNCHANGED <<plannerVars, users, creating, embedVars, indexVars, seed>>

\* the project and the records the administrator's additions start from:
\* every index provisioned and the destinations seeded, or the hotels index
\* missing and no record yet
InitData ==
    /\ PlannerAtRest
    /\ EmbedAtRest
    /\ AuthAtRest
    /\ \/ /\ indexes = Provisioned
          /\ vectors = [n \in RequiredNames |->
                           IF n = INDEX_DESTINATIONS
                           THEN {SeedRecord(d, <<"embedding", 1>>) : d \in Catalog("app.py")}
                           ELSE {}]
       \/ /\ indexes = [n \in RequiredNames \ {INDEX_HOTELS} |-> Requested]
          /\ vectors = [n \in RequiredNames |-> {}]
    /\ ensure = [s \in Sessions |-> NotCalled]
    /\ checked = [n |-> 0, name |-> "", outcome |-> ""]
    /\ added = NeverAdded
    /\ seed = NotSeeding

NextData ==
    \E prog \in Programs, index_name \in CategoryIndexes, text \in Descriptions :
        /\ add_data_to_index(prog, index_name, text, FormMetadata(index_name))
        /\ UNCHANGED session

SpecData == InitData /\ [][NextData]_vars

(***************************************************************************)
(* seed_destination_data of src/app.py (returns True or False) and of      *)
(* src/manage_db.py (returns None), step by step.                          *)
(***************************************************************************)
SeedFailed ==
    seed' = [seed EXCEPT !.pc = "returned", !.ret = Returns(seed.program, FALSE)]

\* the try block up to pc.Index: the destinations index is created when it
\* is not listed, and pc.create_index may raise
seed_begin(prog) ==
    /\ seed.pc \in {"idle", "returned"}
    /\ seed.runs < MaxSeedRuns
    /\ IF INDEX_DESTINATIONS \in DOMAIN indexes
       THEN /\ seed' = [seed EXCEPT !.pc = "loop", !.program = prog, !.k = 1,
                                    !.ret = "", !.runs = @ + 1]
            /\ UNCHANGED indexes
       ELSE \/ /\ indexes' = Created(indexes, INDEX_DESTINATIONS)
               /\ seed' = [seed EXCEPT !.pc = "loop", !.program = prog, !.k = 1,
                                       !.ret = "", !.runs = @ + 1]
            \/ /\ seed' = [seed EXCEPT !.pc = "returned", !.program = prog, !.k = 1,
                                       !.ret = Returns(prog, FALSE), !.runs = @ + 1]
               /\ UNCHANGED indexes
    /\ UNCHANGED <<plannerVars, authVars, embedVars, ensure, checked, vectors, added>>

\* one turn of "for destination, details in DESTINATION_DETAILS.items()":
\* the description is embedded and the record upserted; either may raise,
\* which ends the run
seed_step ==
    /\ seed.pc = "loop"
    /\ seed.k <= Len(DESTINATION_DETAILS(seed.program))
    /\ LET dest == DESTINATION_DETAILS(seed.program)[seed.k] IN
       \E r \in Responses :
         LET e == embed_documents(<<dest>>, <<r>>) IN
         IF e.raised
         THEN SeedFailed /\ UNCHANGED vectors
         ELSE \/ /\ vectors' = [vectors EXCEPT ![INDEX_DESTINATIONS] =
                                   Upsert(@, SeedRecord(dest, e.value[1]))]
                 /\ seed' = [seed EXCEPT !.k = @ + 1]
              \/ SeedFailed /\ UNCHANGED vectors
    /\ UNCHANGED <<plannerVars, authVars, embedVars, indexVars, added>>

\* the loop is over: return True (manage_db.py: the function ends)
seed_return ==
    /\ seed.pc = "loop"
    /\ seed.k > Len(DESTINATION_DETAILS(seed.program))
    /\ seed' = [seed EXCEPT !.pc = "returned", !.ret = Returns(seed.program, TRUE),
                            !.succeeded = @ \cup {seed.program}]
    /\ UNCHANGED <<plannerVars, authVars, embedVars, indexVars, vectors, added>>

seed_destination_data(prog) == seed_begin(prog) \/ seed_step \/ seed_return

InitSeed ==
    /\ PlannerAtRest
    /\ EmbedAtRest
    /\ AuthAtRest
    /\ indexes \in {[n \in RequiredNames |-> Requested],
                    [n \in RequiredNames \ {INDEX_DESTINATIONS} |-> Requested]}
    /\ ensure = [s \in Sessions |-> NotCalled]
    /\ checked = [n |-> 0, name |-> "", outcome |-> ""]
    /\ DataAtRest

NextSeed ==
    \/ \E prog \in Programs : seed_begin(prog)
    \/ seed_step
    \/ seed_return

SpecSeed == InitSeed /\ [][NextSeed]_vars

(***************************************************************************)
(* Two sessions of src/app.py provisioning at the same time: each runs     *)
(* main in a thread of its own, and the steps of their                     *)
(* ensure_indexes_exist calls interleave.                                  *)
(***************************************************************************)
InitProvision ==
    /\ PlannerAtRest
    /\ EmbedAtRest
    /\ AuthAtRest
    /\ indexes \in {ix \in InitialProjects :
                      /\ DOMAIN ix # RequiredNames
                      /\ \A n \in DOMAIN ix : ix[n] = Requested}
    /\ ensure = [s \in Sessions |-> NotCalled]
    /\ checked = [n |-> 0, name |-> "", outcome |-> ""]
    /\ DataAtRest

NextProvision ==
    \/ \E s \in Sessions : ensure_list(s)
    \/ \E s \in Sessions : ensure_step(s)
    \/ \E s \in Sessions : ensure_return(s)

SpecProvision == InitProvision /\ [][NextProvision]_vars

(***************************************************************************)
(* Accounts: initialize_admin at the start of main, and create_user from   *)
(* the sign-up form, in two sessions at the same time.  create_user reads  *)
(* the collection (find_one) and then writes it (insert_one); the steps of *)
(* two calls interleave.                                                   *)
(***************************************************************************)
\* the create_user call of session s returns: initialize_admin goes on to
\* login_ui, the sign-up form stays where it is
CreateUserReturns(s, ret, message) ==
    /\ creating' = [creating EXCEPT ![s] =
                       [@ EXCEPT !.pc = "returned", !.ret = ret, !.message = message]]
    /\ session' = [session EXCEPT ![s].at =
                      IF @ = "initialize_admin" THEN "login" ELSE @]

\* initialize_admin: nothing to do when the admin is found, else create_user
initialize_admin(s) ==
    /\ session[s].at = "start"
    /\ IF find_one(users, ADMIN_USERNAME) # NoUser
       THEN /\ session' = [session EXCEPT ![s].at = "login"]
            /\ UNCHANGED creating
       ELSE /\ session' = [session EXCEPT ![s].at = "initialize_admin"]
            /\ creating' = [creating EXCEPT ![s] =
                               [@ EXCEPT !.pc = "called", !.username = ADMIN_USERNAME,
                                         !.password = ADMIN_PASSWORD, !.role = "admin",
                                         !.ret = "", !.message = ""]]
    /\ UNCHANGED <<users, plannerVars, embedVars, indexVars, dataVars>>

\* "Create Account" submitted with both fields filled and the passwords equal
signup(s, new_username, new_password) ==
    /\ session[s].at = "login"
    /\ creating[s].pc \in {"idle", "returned"}
    /\ creating[s].signups < MaxSignups
    /\ creating' = [creating EXCEPT ![s] =
                       [@ EXCEPT !.pc = "called", !.username = new_username,
                                 !.password = new_password, !.role = "user",
                                 !.ret = "", !.message = "", !.signups = @ + 1]]
    /\ UNCHANGED <<users, session, plannerVars, embedVars, indexVars, dataVars>>

\* create_user: if users_collection.find_one({"username": username})
create_user_find(s) ==
    /\ creating[s].pc = "called"
    /\ IF find_one(users, creating[s].username) # NoUser
       THEN CreateUserReturns(s, "False", "Username already exists")
       ELSE /\ creating' = [creating EXCEPT ![s].pc = "insert"]
            /\ UNCHANGED session
    /\ UNCHANGED <<users, plannerVars, embedVars, indexVars, dataVars>>

\* create_user: users_collection.insert_one(user); return True
create_user_insert(s) ==
    /\ creating[s].pc = "insert"
    /\ users' = insert_one(users, creating[s].username, creating[s].password,
                           creating[s].role)
    /\ CreateUserReturns(s, "True", "User created successfully")
    /\ UNCHANGED <<plannerVars, embedVars, indexVars, dataVars>>

create_user(s) == create_user_find(s) \/ create_user_insert(s)

InitAuth ==
    /\ PlannerAtRest
    /\ EmbedAtRest
    /\ IndexesAtRest
    /\ DataAtRest
    /\ users = {}
    /\ creating = [s \in Sessions |-> NotCreating]
    /\ session = [s \in Sessions |-> NotStarted]

NextAuth ==
    \/ \E s \in Sessions : initialize_admin(s)
    \/ \E s \in Sessions, new_username \in NewUsernames, new_password \in Passwords :
           signup(s, new_username, new_password)
    \/ \E s \in Sessions : create_user_find(s)
    \/ \E s \in Sessions : create_user_insert(s)

SpecAuth == InitAuth /\ [][NextAuth]_vars

(***************************************************************************)
(* A session of src/app.py from the sign-in form on: login_ui, then        *)
(* ensure_indexes_exist, then the planner alone or, for an administrator,  *)
(* the planner and the database manager.  Every rerun of the script takes  *)
(* the same way, so a session stays where it is until it signs out.        *)
(* The administrator and one user are registered.                          *)
(***************************************************************************)
\* "Sign In" submitted with both fields filled: on success the script reruns
\* and main goes past login_ui to ensure_indexes_exist
login_submit(s, username, password) ==
    /\ session[s].at = "login"
    /\ LET user_info == authenticate_user(users, username, password) IN
       IF user_info # NoInfo
       THEN session' = [session EXCEPT ![s] =
                           [@ EXCEPT !.logged_in = TRUE, !.user_info = user_info,
                                     !.at = "init", !.run_calls = ensure[s].calls]]
       ELSE UNCHANGED session
    /\ UNCHANGED <<users, creating, plannerVars, embedVars, indexVars, dataVars>>

\* "Logout" pressed
logout(s) ==
    /\ session[s].logged_in
    /\ session[s].at \in {"failed", "planner", "tabs"}
    /\ session' = [session EXCEPT ![s] =
                      [@ EXCEPT !.logged_in = FALSE, !.user_info = NoInfo, !.at = "login"]]
    /\ UNCHANGED <<users, creating, plannerVars, embedVars, indexVars, dataVars>>

\* main calls ensure_indexes_exist once it is past login_ui
main_ensure(s) ==
    /\ session[s].at = "init"
    /\ \/ ensure[s].calls = session[s].run_calls /\ ensure_list(s)
       \/ ensure_step(s)
       \/ ensure_return(s)

\* main after ensure_indexes_exist returned: "Failed to initialize
\* databases", or the tabs of the administrator, or the planner alone
main_tabs(s) ==
    /\ session[s].at = "init"
    /\ ensure[s].pc = "returned"
    /\ ensure[s].calls > session[s].run_calls
    /\ session' = [session EXCEPT ![s].at =
                      IF ~ensure[s].ret THEN "failed"
                      ELSE IF is_admin(session[s].user_info) THEN "tabs"
                      ELSE "planner"]
    /\ UNCHANGED <<users, creating, plannerVars, embedVars, indexVars, dataVars>>

\* db_manager_ui with "Add Data" submitted: the role is tested again, an
\* empty description is refused, otherwise add_data_to_index is called
db_manager_ui(s) ==
    /\ session[s].at = "tabs"
    /\ session[s].logged_in
    /\ is_admin(session[s].user_info)
    /\ session[s].description_input # ""
    /\ add_data_to_index("app.py", session[s].index_selector,
                         session[s].description_input,
                         FormMetadata(session[s].index_selector))
    /\ session' = [session EXCEPT ![s].adds = @ + 1]

InitAdmin ==
    /\ PlannerAtRest
    /\ EmbedAtRest
    /\ IndexesAtRest
    /\ DataAtRest
    /\ users = insert_one(insert_one({}, ADMIN_USERNAME, ADMIN_PASSWORD, "admin"),
                          "alice", "pw", "user")
    /\ creating = [s \in Sessions |-> NotCreating]
    /\ \E n \in CategoryIndexes, d \in Descriptions \cup {""} :
          session = [s \in Sessions |->
                        IF s = "s1"
                        THEN [NotStarted EXCEPT !.at = "login", !.index_selector = n,
                                                !.description_input = d]
                        ELSE NotStarted]

\* the session s1 followed on its own
NextAdmin ==
    \/ \E username \in NewUsernames, password \in Passwords :
           login_submit("s1", username, password)
    \/ logout("s1")
    \/ main_ensure("s1")
    \/ main_tabs("s1")
    \/ db_manager_ui("s1")

SpecAdmin == InitAdmin /\ [][NextAdmin]_vars

(***************************************************************************)
(* Properties.                                                             *)
(***************************************************************************)
Ended       == phase \in {"returned", "raised"}
FourEntries == Cardinality(DOMAIN results) = 4 /\ Len(tabs) = 4
Distributed == DOMAIN distribution # {}

\* C1: whatever the agents' retrieval and generation outcomes,
\* get_all_recommendations does not raise and its result has exactly four
\* entries, one per category.
C1_FourEntriesNeverRaises ==
    /\ phase # "raised"
    /\ phase = "returned" => FourEntries

\* C2: an agent whose generative call failed returns the placeholder string
\* as an ordinary value; the failure is not raised out of get_recommendations.
C2_PlaceholderOnGenerationFailure ==
    \A a \in Agents :
        llm[a] = LLMError => pc[a] = "done" /\ out[a] = Placeholder(a)

\* C3: an agent whose similarity search failed goes on with an empty
\* context: it renders the prompt, issues the generative call, and returns
\* the generated text when that call succeeds.
C3_EmptyContextOnSearchFailure ==
    \A a \in RetrievalAgents :
        search[a] = "error" =>
            /\ nGen[a] = 1
            /\ prompt[a].results = <<>>
            /\ llm[a] \in Contents => out[a] = llm[a]

\* C4: when the generative call of exactly one agent fails and nothing else
\* does, the result has four entries, the failing category shows its
\* placeholder and every other category the text its own call returned.
OnlyGenerationFailure(f) ==
    /\ llm[f] = LLMError
    /\ \A a \in Agents \ {f} : llm[a] # LLMError
    /\ \A a \in Agents : search[a] # "error"

C4_FailureIsLocal ==
    \A f \in Agents :
        (Ended /\ OnlyGenerationFailure(f)) =>
            /\ phase = "returned"
            /\ FourEntries
            /\ tabs[f].body = Placeholder(f)
            /\ \A a \in Agents \ {f} : llm[a] \in Contents /\ tabs[a].body = llm[a]

\* C5: no agent's start waits for another agent's completion: while a
\* request is running, the next agent that has not started can start, whether
\* or not the agents before it have completed.
C5_StartNeverWaitsForCompletion ==
    \A a \in Agents :
        (phase = "running" /\ pc[a] = "pending" /\ \A b \in Agents : b < a => pc[b] # "pending")
            => ENABLED StartAgent(a)

\* C6: the caller has a result only after all four agents have completed,
\* and then it has four entries; when the call raises it has none.
C6_JoinSemantics ==
    /\ (phase = "returned" \/ tabs # <<>>) =>
           /\ \A a \in Agents : pc[a] = "done" /\ out[a] # <<>>
           /\ FourEntries
    /\ phase = "raised" => results = <<>> /\ tabs = <<>>

C6_Witness ==
    /\ program = "travel_planner.py"
    /\ phase = "returned"
    /\ finished = <<TouristAgent, ExpenseAgent, TransportAgent, HotelAgent>>

\* C7: whatever the order in which the agents complete, each category shows
\* what its own agent returned, and the categories are shown in the order
\* Hotels, Transport, Expenses, Tourist Guide.
C7_FixedOrder ==
    phase = "returned" =>
        \A i \in Agents :
            /\ tabs[i].label = TabLabels[i]
            /\ tabs[i].body = out[i]
            /\ llm[i] \in Contents => tabs[i].body = llm[i]
            /\ nGen[i] = 1 =>
                   prompt[i].template = (IF program = "app.py" THEN AppName(i) ELSE PlannerName(i))

C7_Witness ==
    /\ program = "travel_planner.py"
    /\ phase = "returned"
    /\ finished = <<TransportAgent, TouristAgent, HotelAgent, ExpenseAgent>>
    /\ llm[HotelAgent] # llm[TransportAgent]
    /\ llm[ExpenseAgent] # llm[TouristAgent]

\* C8: an invocation of get_recommendations that is over has issued exactly
\* one generative call and at most one similarity search.
C8_OneGenerativeCall ==
    \A a \in Agents :
        pc[a] \in {"done", "failed"} => nGen[a] = 1 /\ nSearch[a] <= 1

\* C9: the hotel agent is called with hotel_budget, the transport agent with
\* transport_budget, the expense agent with misc_budget, and the tourist
\* agent with no budget at all.
C9_AgentsReceiveTheirShare ==
    phase \in {"running", "returned", "raised"} =>
        /\ num_eq(query[HotelAgent].budget, PyFloat(distribution.hotel_budget))
        /\ num_eq(query[TransportAgent].budget, PyFloat(distribution.transport_budget))
        /\ num_eq(query[ExpenseAgent].budget, PyFloat(distribution.misc_budget))
        /\ "budget" \notin DOMAIN query[TouristAgent]

\* the sum the three shares make, added in the order hotel, transport, misc
SharesSum(d) == float_add(float_add(d.hotel_budget, d.transport_budget), d.misc_budget)

IsMultipleOfTen(b) == DivSmall(b, 10)[2] = 0

EmbedCalled   == DOMAIN embeddings # {}
EmbedReturned == EmbedCalled /\ ~embeddings.raised
EmbedRaised   == EmbedCalled /\ embeddings.raised
AllOK         == \A i \in 1..Len(texts) : responses[i].status_code = StatusOK
\* the position of the first text whose request the provider refused
FirstFailure ==
    CHOOSE i \in 1..Len(texts) :
        /\ responses[i].status_code # StatusOK
        /\ \A j \in 1..(i - 1) : responses[j].status_code = StatusOK

\* C15: when the provider answers every request with 200, embed_documents
\* returns one vector per text, the i-th being the provider's embedding of the
\* i-th text, and has made one request per text, in the order of the texts.
C15_OneVectorPerText ==
    (EmbedCalled /\ AllOK) =>
        /\ EmbedReturned
        /\ Len(embeddings.value) = Len(texts)
        /\ \A i \in 1..Len(texts) : embeddings.value[i] = responses[i].embedding
        /\ embeddings.posted = texts

C15_Witness ==
    /\ EmbedReturned
    /\ Len(texts) = MaxBatch
    /\ responses[1].embedding # responses[2].embedding
    /\ texts[1] # texts[2]

\* C16: when the provider answers a request with a status other than 200,
\* embed_documents raises an error that carries that status and the position
\* of the text that failed; it returns no partial list and makes no request
\* after the failed one.
C16_ErrorCarriesStatusAndIndex ==
    (EmbedCalled /\ ~AllOK) =>
        /\ EmbedRaised
        /\ embeddings.value = <<>>
        /\ embeddings.posted = SubSeq(texts, 1, FirstFailure)
        /\ embeddings.error.status_code = responses[FirstFailure].status_code
        /\ \E f \in DOMAIN embeddings.error \ {"message", "status_code"} :
               embeddings.error[f] = FirstFailure


EnsureReturned(s) == ensure[s].pc = "returned"

\* C11: once a call of ensure_indexes_exist has succeeded, the session's next
\* call creates no index, reports no error and returns success, and the set
\* of indexes stays the one the successful call left; likewise a create_index
\* of manage_db.py for a name whose previous create_index succeeded finds the
\* index, creates nothing and reports no error.
C11_EnsureIdempotent ==
    /\ [](\A s \in Sessions :
            ensure[s].again =>
                /\ ensure[s].created = <<>>
                /\ (EnsureReturned(s) => ensure[s].ret)
                /\ DOMAIN indexes = ensure[s].after)
    /\ [][(/\ checked'.n = checked.n + 1
           /\ checked.outcome \in {"created", "exists"}
           /\ checked'.name = checked.name)
              => (checked'.outcome = "exists" /\ indexes' = indexes)]_vars

C11_Witness ==
    /\ ensure["s1"].again
    /\ EnsureReturned("s1")
    /\ ensure["s1"].ret
    /\ checked.n = 2
    /\ checked.outcome = "exists"

Matches(n) == indexes[n] = Requested

\* C17: provisioning never alters an index that exists, and a call of
\* ensure_indexes_exist that finds a required index with a dimension or
\* metric other than the requested ones does not report success.
C17_MismatchIsAnError ==
    /\ [][\A n \in DOMAIN indexes : n \in DOMAIN indexes' /\ indexes'[n] = indexes[n]]_vars
    /\ [](\A s \in Sessions :
            (EnsureReturned(s) /\ ensure[s].ret) =>
                \A n \in RequiredNames : Matches(n))


Seeded == vectors[INDEX_DESTINATIONS]
NamedRecords(d) == {r \in Seeded : r.metadata.name = d}

\* C12: however many times seeding has run, the destinations index holds at
\* most one record per destination, each under the id derived from the
\* destination's name; once a program's seeding has succeeded, the index
\* holds exactly one record for each destination of that program's catalog.
C12_SeedingIdempotent ==
    /\ \A r \in Seeded : r.id = SeedId(r.metadata.name)
    /\ \A d \in Catalog("app.py") : Cardinality(NamedRecords(d)) <= 1
    /\ \A prog \in seed.succeeded :
          \A d \in Catalog(prog) :
              /\ Cardinality(NamedRecords(d)) = 1
              /\ SeedId(d) \in Ids(Seeded)
    /\ "app.py" \in seed.succeeded =>
          Cardinality(Seeded) = Len(DESTINATION_DETAILS("app.py"))

C12_Witness ==
    /\ seed.runs = MaxSeedRuns
    /\ seed.pc = "returned"
    /\ seed.program = "app.py"
    /\ seed.ret = "True"
    /\ seed.succeeded = Programs

AddSucceeded(a) == a.cause = "" /\ a.n > 0

\* C13: a successful add_data_to_index adds one record under an id no record
\* had, and every record that was in an index before the call is still there
\* unchanged after it; so two successful calls with the same arguments leave
\* two records with two ids.
C13_AppendOnly ==
    [][(added'.n = added.n + 1 /\ AddSucceeded(added')) =>
          /\ \A n \in RequiredNames : vectors[n] \subseteq vectors'[n]
          /\ \E r \in vectors'[added'.index_name] :
                /\ r.id \notin Ids(vectors[added'.index_name])
                /\ vectors'[added'.index_name] = vectors[added'.index_name] \cup {r}]_vars

C13_Witness ==
    /\ added.n = 2
    /\ Seeded # {}
    /\ \E n \in CategoryIndexes :
         \E r1, r2 \in vectors[n] :
            /\ r1.id # r2.id
            /\ r1.values = r2.values
            /\ r1.metadata = r2.metadata

\* C18: add_data_to_index of app.py never raises and returns True or False;
\* when it returns True exactly one record, holding the description under
\* the key 'text', has been added to the named index and nothing else has
\* changed; when it returns False because embedding the description failed,
\* no record has been written and every index is as it was.
C18_ReportsOutcome ==
    [][(added'.n = added.n + 1 /\ added'.program = "app.py") =>
          /\ ~added'.raised
          /\ added'.ret \in {"True", "False"}
          /\ added'.ret = "True" =>
                \E r \in vectors'[added'.index_name] \ vectors[added'.index_name] :
                   /\ r.metadata.text = added'.text
                   /\ vectors' = [vectors EXCEPT ![added'.index_name] = @ \cup {r}]
          /\ (added'.ret = "False" /\ added'.cause = "embedding") =>
                (vectors' = vectors /\ indexes' = indexes)]_vars

C18_Witness ==
    /\ added.program = "app.py"
    /\ added.ret = "False"
    /\ added.cause = "embedding"
    /\ \E n \in CategoryIndexes : vectors[n] # {}


IndexedAgents == {HotelAgent, TransportAgent, TouristAgent}
Invoked(a)    == pc[a] # "pending"

\* C14: in app.py an agent constructed with an index is invoked, and a
\* similarity search is issued, only when that index exists and a call of
\* ensure_indexes_exist has returned True before.
C14_ProvisionedBeforeInvoked ==
    \A a \in IndexedAgents :
        (program = "app.py" /\ (Invoked(a) \/ nSearch[a] > 0)) =>
            /\ ensure["s1"].succeeded
            /\ IndexOf(a) \in DOMAIN indexes

C14_Witness ==
    /\ program = "app.py"
    /\ nSearch[HotelAgent] = 1
    /\ ensure["s1"].created # <<>>
    /\ Head(ensure["s1"].created) = INDEX_HOTELS
    /\ ensure["s1"].calls = 2

\* C19: the expense agent never issues a similarity search and, once it has
\* returned or failed, has issued exactly one generative call; only the
\* hotel, transport and tourist agents issue similarity searches.
C19_ExpenseWithoutRetrieval ==
    /\ nSearch[ExpenseAgent] = 0
    /\ search[ExpenseAgent] = "none"
    /\ pc[ExpenseAgent] \in {"done", "failed"} => nGen[ExpenseAgent] = 1
    /\ \A a \in Agents : nSearch[a] > 0 => a \in IndexedAgents

C19_Witness ==
    /\ pc[ExpenseAgent] = "done"
    /\ nGen[ExpenseAgent] = 1
    /\ nSearch[HotelAgent] = 1
    /\ nSearch[TransportAgent] = 1

\* C20: when the origin or the destination is empty, "Plan My Trip" ends in
\* the error and no agent is invoked, no similarity search and no generative
\* call issued; agents are invoked only when both are non-empty.
C20_OnlyWellFormedRequests ==
    /\ (boarding = "" \/ destination = "") =>
          /\ phase \in {"idle", "rejected"}
          /\ \A a \in Agents : ~Invoked(a) /\ nSearch[a] = 0 /\ nGen[a] = 0
    /\ (\E a \in Agents : Invoked(a)) => (boarding # "" /\ destination # "")
    /\ (boarding # "" /\ destination # "") => phase # "rejected"

C20_Witness ==
    /\ phase = "rejected"
    /\ boarding # ""
    /\ destination = ""


\* C21: when two sessions run ensure_indexes_exist at the same time on a
\* project that lacks a required index, then in every interleaving in which
\* the provider refuses no creation each call returns True, with every
\* required index existing, and no session is left with "Failed to
\* initialize databases".
C21_ConcurrentProvisioningSucceeds ==
    \A s \in Sessions :
        (EnsureReturned(s) /\ ensure[s].error # "refused") =>
            /\ ensure[s].ret
            /\ RequiredNames \subseteq DOMAIN indexes


Named(username) == {u \in users : u.username = username}

\* C23: whatever the interleaving of create_user calls, the collection holds
\* at most one user per username; and a create_user call that finds its
\* username in the collection returns (False, "Username already exists") and
\* leaves the collection as it is.
C23_UsernamesUnique ==
    /\ [](\A u \in users : Cardinality(Named(u.username)) = 1)
    /\ [][\A s \in Sessions :
            (creating[s].pc = "called" /\ creating'[s] # creating[s]
                 /\ Named(creating[s].username) # {}) =>
                /\ creating'[s].pc = "returned"
                /\ creating'[s].ret = "False"
                /\ creating'[s].message = "Username already exists"
                /\ users' = users]_vars


\* C22: add_data_to_index is called only from the database manager of a
\* session that is logged in with a user of role "admin" (a role some stored
\* user of that name has) and whose description is not empty; and a session
\* that is not logged in is at neither the planner nor the database manager.
C22_AdminOnlyWrites ==
    /\ [][\A s \in Sessions :
            session'[s].adds # session[s].adds =>
                /\ session[s].logged_in
                /\ session[s].user_info.role = "admin"
                /\ \E u \in users : /\ u.username = session[s].user_info.username
                                    /\ u.role = "admin"
                /\ session[s].description_input # ""]_vars
    /\ [][added'.n # added.n =>
            \E s \in Sessions : session'[s].adds = session[s].adds + 1]_vars
    /\ [](\A s \in Sessions :
            ~session[s].logged_in => session[s].at \notin {"planner", "tabs"})

C22_Witness ==
    /\ session["s1"].adds > 0
    /\ AddSucceeded(added)
    /\ session["s1"].logged_in
    /\ session["s1"].user_info.role = "user"
    /\ session["s1"].at = "planner"

=============================================================================
